---- MODULE Spec2Model ----
(***************************************************************************)
(* A model of copt/stochastic.py: the SAGA and PSSAGA solvers (fmin_SAGA,  *)
(* fmin_PSSAGA), their epoch kernels, the gradient memory table and the    *)
(* block-support index.                                                    *)
(*                                                                         *)
(* Numbers are exact rationals <<num, den>> (den > 0, lowest terms), so    *)
(* the arithmetic of the kernels is the arithmetic of the source without   *)
(* floating-point rounding.  Arrays are functions on 0..size-1, as in the  *)
(* source.  The loss derivative is deriv_squared.                          *)
(***************************************************************************)
EXTENDS Integers, Sequences, FiniteSets, TLC

----------------------------------------------------------------------------
(* Bounds of the model.                                                    *)

\* largest max_iter a caller passes
MaxIter == 2
\* largest number of sample steps taken by the paired runs of SpecTwin
MaxTwinSteps == 3
\* largest number of features, of stored entries and of rows of the index
\* structures _support_matrix is called on in SpecSupport
MaxFeatures == 3
MaxNnz == 3
MaxRows == 2

----------------------------------------------------------------------------
(* Exact rational arithmetic.                                              *)

Abs(a) == IF a < 0 THEN -a ELSE a

RECURSIVE GCD(_, _)
GCD(a, b) == IF b = 0 THEN a ELSE GCD(b, a % b)

Rat(n, d) ==
  LET g == GCD(Abs(n), d)
  IN  IF n = 0 THEN <<0, 1>> ELSE <<n \div g, d \div g>>

R(i) == <<i, 1>>
\* over the least common denominator, so that no intermediate outgrows the result
RAdd(p, q) ==
  LET g == GCD(p[2], q[2])
  IN  Rat(p[1] * (q[2] \div g) + q[1] * (p[2] \div g), (p[2] \div g) * q[2])
RNeg(p) == <<-p[1], p[2]>>
RSub(p, q) == RAdd(p, RNeg(q))
\* cancelling crosswise before multiplying
RMul(p, q) ==
  LET g1 == GCD(Abs(p[1]), q[2])
      g2 == GCD(Abs(q[1]), p[2])
  IN  IF p[1] = 0 \/ q[1] = 0 THEN <<0, 1>>
      ELSE <<(p[1] \div g1) * (q[1] \div g2), (p[2] \div g2) * (q[2] \div g1)>>
RDivInt(p, n) == RMul(p, <<1, n>>)
RInv(p) == IF p[1] < 0 THEN <<-p[2], -p[1]>> ELSE <<p[2], p[1]>>
RLt(p, q) == p[1] * q[2] < q[1] * p[2]
RMax(p, q) == IF RLt(p, q) THEN q ELSE p

\* a Python list / numpy array written as a tuple, as a function on 0..size-1
Vec(s) == [j \in 0..(Len(s) - 1) |-> s[j + 1]]
Size(v) == Cardinality(DOMAIN v)
Zeros(n) == [j \in 0..(n - 1) |-> R(0)]
RVec(s) == [j \in 0..(Len(s) - 1) |-> R(s[j + 1])]

RECURSIVE SumTo(_, _)
\* f[0] + ... + f[n-1]
SumTo(f, n) == IF n = 0 THEN R(0) ELSE RAdd(SumTo(f, n - 1), f[n - 1])

----------------------------------------------------------------------------
(* Loss derivative and proximal operators.                                 *)

\* deriv_squared(p, y) = -(y - p)
deriv_squared(p, y) == RNeg(RSub(y, p))

\* prox_L1: soft thresholding of x[low..high-1], in place
prox_L1(step, x, low, high) ==
  [j \in DOMAIN x |->
     IF low <= j /\ j < high
       THEN RSub(RMax(RSub(x[j], step), R(0)),
                 RMax(RSub(RNeg(x[j]), step), R(0)))
       ELSE x[j]]

\* The g_prox used by the SAGA kernel and certificate: the default
\* (g_prox=None: "return x"), a caller's identity operator, or prox_L1.
SagaProx(kind, step, x, low, high) ==
  IF kind = "L1" THEN prox_L1(step, x, low, high) ELSE x

\* The g_prox of PSSAGA, called as g_prox(step, y, x, low, high, weights):
\* writes prox(y) into x on low..high-1.  The default and a caller's
\* identity operator copy y into x; L1 thresholds by step * weights[j].
PssagaGProx(kind, step, y, x, low, high, weights) ==
  [j \in DOMAIN x |->
     IF low <= j /\ j < high
       THEN IF kind = "L1"
              THEN LET s == RMul(step, weights[j])
                   IN  RSub(RMax(RSub(y[j], s), R(0)),
                            RMax(RSub(RNeg(y[j]), s), R(0)))
              ELSE y[j]
       ELSE x[j]]

\* The h_prox of PSSAGA, called as h_prox(step, z, low, high), in place:
\* the default ("pass"), a caller's identity operator, or prox_L1.
PssagaHProx(kind, step, z, low, high) ==
  IF kind = "L1" THEN prox_L1(step, z, low, high) ELSE z

----------------------------------------------------------------------------
(* sparse.csr_matrix(A): the CSR arrays of a dense matrix given as a tuple *)
(* of rows.                                                                *)

NSamples(A) == Len(A)
NFeatures(A) == Len(A[1])

RECURSIVE RowCols(_, _)
\* the nonzero columns (0-based) of a dense row among its first k entries,
\* in ascending order
RowCols(row, k) ==
  IF k = 0 THEN <<>>
  ELSE IF row[k] # 0 THEN Append(RowCols(row, k - 1), k - 1)
       ELSE RowCols(row, k - 1)

RECURSIVE FlatCols(_, _)
\* the concatenated nonzero columns of the first i rows
FlatCols(A, i) ==
  IF i = 0 THEN <<>> ELSE FlatCols(A, i - 1) \o RowCols(A[i], Len(A[i]))

CsrIndptr(A) == [i \in 0..Len(A) |-> Len(FlatCols(A, i))]
CsrIndices(A) == Vec(FlatCols(A, Len(A)))
CsrRowOf(A, k) == CHOOSE i \in 1..Len(A) : CsrIndptr(A)[i - 1] <= k /\ k < CsrIndptr(A)[i]
CsrData(A) ==
  [k \in DOMAIN CsrIndices(A) |-> R(A[CsrRowOf(A, k)][CsrIndices(A)[k] + 1])]
Csr(A) ==
  [indptr |-> CsrIndptr(A), indices |-> CsrIndices(A), data |-> CsrData(A),
   n_samples |-> NSamples(A), n_features |-> NFeatures(A)]

----------------------------------------------------------------------------
(* _support_matrix: the block-support index.                               *)

\* the state of _support_matrix before its row loop
SupportInit(A_indices, A_indptr, n_blocks) ==
  [BS_indices |-> [k \in DOMAIN A_indices |-> 0],
   BS_indptr |-> [k \in DOMAIN A_indptr |-> 0],
   seen_blocks |-> [h \in 0..(n_blocks - 1) |-> 0],
   counter_indptr |-> 0]

RECURSIVE SupportScanBackward(_, _, _, _, _)
\* an inner loop that runs over the row from its last stored entry to its first
SupportScanBackward(s, A_indices, g_blocks, j, high) ==
  IF j >= high THEN s
  ELSE LET g_idx == g_blocks[A_indices[high - 1]]
       IN  IF s.seen_blocks[g_idx] = 0
             THEN SupportScanBackward(
                    [s EXCEPT !.BS_indices[s.counter_indptr] = g_idx,
                              !.seen_blocks[g_idx] = 1,
                              !.counter_indptr = @ + 1],
                    A_indices, g_blocks, j, high - 1)
             ELSE SupportScanBackward(s, A_indices, g_blocks, j, high - 1)

RECURSIVE SupportScan(_, _, _, _, _)
\* the inner loop "for j in range(low, high)" from position j on
SupportScan(s, A_indices, g_blocks, j, high) ==
  IF j >= high THEN s
  ELSE LET g_idx == g_blocks[A_indices[j]]
       IN  IF s.seen_blocks[g_idx] = 0
             THEN SupportScan(
                    [s EXCEPT !.BS_indices[s.counter_indptr] = g_idx,
                              !.seen_blocks[g_idx] = 1,
                              !.counter_indptr = @ + 1],
                    A_indices, g_blocks, j + 1, high)
             ELSE SupportScan(s, A_indices, g_blocks, j + 1, high)

\* a row loop that leaves the markers of its row set
SupportCleanupSkipped(s, j, high) == s

RECURSIVE SupportCleanup(_, _, _)
\* "for j in range(BS_indptr[i], counter_indptr): seen_blocks[BS_indices[j]] = 0"
SupportCleanup(s, j, high) ==
  IF j >= high THEN s
  ELSE SupportCleanup([s EXCEPT !.seen_blocks[s.BS_indices[j]] = 0], j + 1, high)

\* one iteration of the row loop, for row i
SupportRow(s, A_indices, A_indptr, g_blocks, i) ==
  LET t == SupportScan(s, A_indices, g_blocks, A_indptr[i], A_indptr[i + 1])
      u == [t EXCEPT !.BS_indptr[i + 1] = t.counter_indptr]
  IN  SupportCleanup(u, u.BS_indptr[i], u.counter_indptr)

RECURSIVE SupportRows(_, _, _, _, _)
\* the state of _support_matrix after its first n rows
SupportRows(A_indices, A_indptr, g_blocks, n_blocks, n) ==
  IF n = 0 THEN SupportInit(A_indices, A_indptr, n_blocks)
  ELSE SupportRow(SupportRows(A_indices, A_indptr, g_blocks, n_blocks, n - 1),
                  A_indices, A_indptr, g_blocks, n - 1)

\* "BS_data = np.ones(counter_indptr); return BS_data,
\* BS_indices[:counter_indptr], BS_indptr", from the state s after the row loop
SupportReturned(s) ==
  [BS_data |-> [k \in 0..(s.counter_indptr - 1) |-> 1],
   BS_indices |-> [k \in 0..(s.counter_indptr - 1) |-> s.BS_indices[k]],
   BS_indptr |-> s.BS_indptr]

\* what _support_matrix returns: BS_data, BS_indices[:counter_indptr], BS_indptr
support_matrix(A_indices, A_indptr, g_blocks, n_blocks) ==
  SupportReturned(
    SupportRows(A_indices, A_indptr, g_blocks, n_blocks, Size(A_indptr) - 1))

----------------------------------------------------------------------------
(* What the two factories compute from the block assignment.               *)

\* np.unique(blocks).size
NBlocks(blocks) == Cardinality({blocks[j] : j \in DOMAIN blocks})

\* "assert np.all(unique_blocks == np.arange(n_blocks))"
BlocksValid(blocks) == {blocks[j] : j \in DOMAIN blocks} = 0..(NBlocks(blocks) - 1)

\* reverse_blocks.tocsr().indptr: RB_indptr[h] is the number of features in
\* the blocks below h
ReverseIndptr(blocks, n_blocks, n_features) ==
  [h \in 0..n_blocks |->
     Cardinality({j \in 0..(n_features - 1) : blocks[j] < h})]

\* BS.sum(0)[h]: the number of rows whose support holds block h
BlockCount(BS, h) ==
  Cardinality({i \in 0..(Size(BS.BS_indptr) - 2) :
     \E k \in BS.BS_indptr[i]..(BS.BS_indptr[i + 1] - 1) : BS.BS_indices[k] = h})

\* the number of columns sparse.csr_matrix infers for BS_h when it is given
\* no shape: max(indices) + 1
InferredCols(BS) ==
  LET ids == {BS.BS_indices[k] : k \in DOMAIN BS.BS_indices}
  IN  (CHOOSE m \in ids : \A o \in ids : o <= m) + 1

\* d_h of _factory_sparse_PSSAGA: n_samples / count where count # 0, else 1
BlockWeights(BS, n_samples) ==
  [h \in 0..(InferredCols(BS) - 1) |->
     IF BlockCount(BS, h) # 0 THEN Rat(n_samples, BlockCount(BS, h)) ELSE R(1)]

RECURSIVE FeatureWeights(_, _, _, _)
\* d_weights: "for h in range(n_blocks_h): for b_j in range(RB_h_indptr[h],
\* RB_h_indptr[h+1]): d_weights[b_j] = 1.0 / d_h[h]", for the first n blocks
FeatureWeights(d_h, RB_indptr, n_features, n) ==
  IF n = 0 THEN Zeros(n_features)
  ELSE LET w == FeatureWeights(d_h, RB_indptr, n_features, n - 1)
       IN  [j \in DOMAIN w |->
              IF RB_indptr[n - 1] <= j /\ j < RB_indptr[n]
                THEN RInv(d_h[n - 1]) ELSE w[j]]

----------------------------------------------------------------------------
(* The gradient memory table and the SAGA epoch kernel                     *)
(* (_epoch_factory_sparse_SAGA).  fac is the closure of the factory: the   *)
(* CSR arrays of A, b, alpha, beta, the proximal operators and the block   *)
(* structures.  s holds the arrays a kernel works on: x, y, z,             *)
(* memory_gradient, gradient_average.                                      *)

RECURSIVE InitRow(_, _, _, _, _)
\* "gradient_average[j_idx] += grad_i * A_data[j] / n_samples" for j = k..high-1
InitRow(fac, ga, grad_i, k, high) ==
  IF k >= high THEN ga
  ELSE InitRow(fac,
         [ga EXCEPT ![fac.A_indices[k]] =
            RAdd(@, RDivInt(RMul(grad_i, fac.A_data[k]), fac.n_samples))],
         grad_i, k + 1, high)

RECURSIVE InitRows(_, _)
\* init_gradient after its first n samples, from zeroed arrays
InitRows(fac, n) ==
  IF n = 0
    THEN [memory_gradient |-> Zeros(fac.n_samples),
          gradient_average |-> Zeros(fac.n_features)]
    ELSE LET m == InitRows(fac, n - 1)
             grad_i == deriv_squared(R(0), fac.b[n - 1])
         IN  [memory_gradient |-> [m.memory_gradient EXCEPT ![n - 1] = grad_i],
              gradient_average |->
                InitRow(fac, m.gradient_average, grad_i,
                        fac.A_indptr[n - 1], fac.A_indptr[n])]

\* init_gradient(memory_gradient, gradient_average, n_samples)
init_gradient(fac) == InitRows(fac, fac.n_samples)

RECURSIVE Dot(_, _, _, _)
\* "p += x[j_idx] * A_data[j]" for j = k..high-1
Dot(fac, x, k, high) ==
  IF k >= high THEN R(0)
  ELSE RAdd(RMul(x[fac.A_indices[high - 1]], fac.A_data[high - 1]),
            Dot(fac, x, k, high - 1))

\* the prediction of row i
Predict(fac, x, i) == Dot(fac, x, fac.A_indptr[i], fac.A_indptr[i + 1])

\* SAGA kernel, first part of a sample step: the prediction, grad_i and mem_i
SagaRead(fac, s, i) ==
  [i |-> i,
   grad_i |-> deriv_squared(Predict(fac, s.x, i), fac.b[i]),
   mem_i |-> s.memory_gradient[i]]

RECURSIVE SagaCoefLoop(_, _, _, _, _, _, _)
\* ".. update coefficients ..": the loop over the row's entries k..high-1
SagaCoefLoop(fac, x, ga, loc, step, k, high) ==
  IF k >= high THEN x
  ELSE LET j_idx == fac.A_indices[k]
           x_j == x[j_idx]
           incr == RAdd(RMul(RSub(loc.grad_i, loc.mem_i), fac.A_data[k]),
                        RAdd(ga[j_idx], RMul(fac.alpha, x_j)))
           x_new == RSub(x_j, RMul(step, incr))
       IN  SagaCoefLoop(fac, [x EXCEPT ![j_idx] = x_new], ga, loc, step, k + 1, high)

\* SAGA kernel, second part: the coefficient update and the proximal step
SagaCoef(fac, s, loc, step) ==
  LET x1 == SagaCoefLoop(fac, s.x, s.gradient_average, loc, step,
                         fac.A_indptr[loc.i], fac.A_indptr[loc.i + 1])
  IN  [s EXCEPT !.x = SagaProx(fac.g_prox, RMul(step, fac.beta), x1, 0, fac.n_features)]

RECURSIVE AvgLoopNoDiv(_, _, _, _, _)
\* an update of the average that forgets "/ n_samples"
AvgLoopNoDiv(fac, ga, delta, k, high) ==
  IF k >= high THEN ga
  ELSE AvgLoopNoDiv(fac,
         [ga EXCEPT ![fac.A_indices[k]] = RAdd(@, RMul(delta, fac.A_data[k]))],
         delta, k + 1, high)

RECURSIVE AvgLoop(_, _, _, _, _)
\* "gradient_average[j_idx] += delta * A_data[j] / n_samples" for j = k..high-1
AvgLoop(fac, ga, delta, k, high) ==
  IF k >= high THEN ga
  ELSE AvgLoop(fac,
         [ga EXCEPT ![fac.A_indices[k]] =
            RAdd(@, RDivInt(RMul(delta, fac.A_data[k]), fac.n_samples))],
         delta, k + 1, high)

\* SAGA kernel, third part: the gradient average, with memory_gradient[i]
\* as it is in memory now
SagaAvg(fac, s, loc) ==
  [s EXCEPT !.gradient_average =
     AvgLoop(fac, @, RSub(loc.grad_i, s.memory_gradient[loc.i]),
             fac.A_indptr[loc.i], fac.A_indptr[loc.i + 1])]

\* SAGA kernel, last part: "memory_gradient[i] += (grad_i - mem_i)"
SagaMem(s, loc) ==
  [s EXCEPT !.memory_gradient[loc.i] = RAdd(@, RSub(loc.grad_i, loc.mem_i))]

\* one whole sample step of the SAGA kernel, run without interruption
SagaSample(fac, s, i, step) ==
  LET loc == SagaRead(fac, s, i)
      s1 == SagaCoef(fac, s, loc, step)
      s2 == SagaAvg(fac, s1, loc)
  IN  SagaMem(s2, loc)

\* the certificate of fmin_SAGA, squared: |x - z|^2 where z is one proximal
\* gradient step from x.  Returns z and the squared norm.
SagaCertificate(fac, s, step) ==
  LET z0 == [j \in DOMAIN s.x |->
               RSub(s.x[j], RMul(step, RAdd(s.gradient_average[j],
                                            RMul(fac.alpha, s.x[j]))))]
      z1 == SagaProx(fac.g_prox, RMul(fac.beta, step), z0, 0, fac.n_features)
      sq == [j \in DOMAIN s.x |-> RMul(RSub(s.x[j], z1[j]), RSub(s.x[j], z1[j]))]
  IN  [z |-> z1, certificate |-> SumTo(sq, Size(s.x))]

----------------------------------------------------------------------------
(* The PSSAGA epoch kernel (_factory_sparse_PSSAGA).                       *)

RECURSIVE PssagaFirstPass(_, _, _, _, _)
\* the first loop over the blocks of row i: g_prox(step * beta, y, x,
\* RB_h_indptr[h], RB_h_indptr[h+1], d_weights) for h_j = k..high-1
PssagaFirstPass(fac, s, step, k, high) ==
  IF k >= high THEN s
  ELSE LET h == fac.BS_indices[k]
       IN  PssagaFirstPass(fac,
             [s EXCEPT !.x = PssagaGProx(fac.g_prox, RMul(step, fac.beta), s.y, @,
                                         fac.RB_indptr[h], fac.RB_indptr[h + 1],
                                         fac.d_weights)],
             step, k + 1, high)

\* grad_est after ".. gradient estimate ..": (grad_i - memory_gradient[i]) *
\* A_data[j] on the row's features, zero elsewhere (the kernel clears the
\* entries it set at the end of every sample step)
GradEst(fac, s, i, grad_i) ==
  [j \in 0..(fac.n_features - 1) |->
     IF \E k \in fac.A_indptr[i]..(fac.A_indptr[i + 1] - 1) : fac.A_indices[k] = j
       THEN LET k == CHOOSE k \in fac.A_indptr[i]..(fac.A_indptr[i + 1] - 1) :
                       fac.A_indices[k] = j
            IN  RMul(RSub(grad_i, s.memory_gradient[i]), fac.A_data[k])
       ELSE R(0)]

RECURSIVE PssagaZLoop(_, _, _, _, _, _, _)
\* ".. iterate on features inside block ..": z[b_j] for b_j = k..high-1
PssagaZLoop(fac, s, grad_est, step, h, k, high) ==
  IF k >= high THEN s
  ELSE LET bias_term == RMul(fac.d_h[h],
                             RAdd(s.gradient_average[k], RMul(fac.alpha, s.x[k])))
           z_new == RSub(RSub(RMul(R(2), s.x[k]), s.y[k]),
                         RMul(step, RAdd(grad_est[k], bias_term)))
       IN  PssagaZLoop(fac, [s EXCEPT !.z[k] = z_new], grad_est, step, h, k + 1, high)

RECURSIVE PssagaYLoop(_, _, _)
\* ".. update y ..": "y[b_j] -= x[b_j] - z[b_j]" for b_j = k..high-1
PssagaYLoop(s, k, high) ==
  IF k >= high THEN s
  ELSE PssagaYLoop([s EXCEPT !.y[k] = RSub(@, RSub(s.x[k], s.z[k]))], k + 1, high)

RECURSIVE PssagaSecondPass(_, _, _, _, _, _)
\* ".. iterate on blocks ..": the second loop over the blocks of row i
PssagaSecondPass(fac, s, grad_est, step, k, high) ==
  IF k >= high THEN s
  ELSE LET h == fac.BS_indices[k]
           lo == fac.RB_indptr[h]
           hi == fac.RB_indptr[h + 1]
           s1 == PssagaZLoop(fac, s, grad_est, step, h, lo, hi)
           s2 == [s1 EXCEPT !.z = PssagaHProx(fac.h_prox,
                                    RMul(RMul(fac.d_h[h], step), fac.gamma), @, lo, hi)]
           s3 == PssagaYLoop(s2, lo, hi)
       IN  PssagaSecondPass(fac, s3, grad_est, step, k + 1, high)

\* ".. update memory terms ..": the gradient average, then
\* "memory_gradient[i] = grad_i"
PssagaMem(fac, s, i, grad_i) ==
  [s EXCEPT !.gradient_average =
              AvgLoop(fac, @, RSub(grad_i, s.memory_gradient[i]),
                      fac.A_indptr[i], fac.A_indptr[i + 1]),
            !.memory_gradient[i] = grad_i]

\* one sample step of the PSSAGA kernel
PssagaSample(fac, s, i, step) ==
  LET lo == fac.BS_indptr[i]
      hi == fac.BS_indptr[i + 1]
      s1 == PssagaFirstPass(fac, s, step, lo, hi)
      grad_i == deriv_squared(Predict(fac, s1.x, i), fac.b[i])
      grad_est == GradEst(fac, s1, i, grad_i)
      s2 == PssagaSecondPass(fac, s1, grad_est, step, lo, hi)
  IN  PssagaMem(fac, s2, i, grad_i)

RECURSIVE PssagaEpoch(_, _, _, _, _)
\* epoch_iteration_template over the first n entries of sample_indices
PssagaEpoch(fac, s, sample_indices, step, n) ==
  IF n = 0 THEN s
  ELSE PssagaSample(fac, PssagaEpoch(fac, s, sample_indices, step, n - 1),
                    sample_indices[n], step)

\* the indices b_j a block pass of the kernel visits for block h:
\* "for b_j in range(RB_h_indptr[h], RB_h_indptr[h+1])", and the low and high
\* handed to g_prox and h_prox
BlockRange(f, h) == f.RB_indptr[h]..(f.RB_indptr[h + 1] - 1)

\* the certificate of fmin_PSSAGA, squared: |x - z|^2
PssagaCertificate(s) ==
  LET sq == [j \in DOMAIN s.x |-> RMul(RSub(s.x[j], s.z[j]), RSub(s.x[j], s.z[j]))]
  IN  SumTo(sq, Size(s.x))

----------------------------------------------------------------------------
(* The arguments of a call.  c is the record of the arguments of one call  *)
(* of fmin_SAGA or fmin_PSSAGA: solver, A, b, x0 (tuples of integers),     *)
(* alpha, beta, gamma (integers), step_size and tol (rationals), g_prox    *)
(* and h_prox (the kind of the argument), blocks (g_blocks or h_blocks),   *)
(* n_jobs, max_iter, trace.                                                *)

\* blocks=None
NoBlocks == <<>>

\* g_prox / h_prox: None, a callable that is the identity, the callable
\* prox_L1, or an object that is neither None nor callable
ProxKinds == {"None", "Identity", "L1", "NotCallable"}

\* "hasattr(prox, '__call__')" or "prox is None"; anything else raises
\* NotImplementedError
ProxSupported(kind) == kind # "NotCallable"

\* the block assignment fmin_SAGA hands to its factory
SagaBlocks(c) ==
  IF c.blocks = NoBlocks THEN [j \in 0..(NFeatures(c.A) - 1) |-> 0] ELSE Vec(c.blocks)

\* the block assignment fmin_PSSAGA hands to its factory: np.arange(n_features)
\* in the branch "h_prox is None", np.zeros(n_features) otherwise
PssagaBlocks(c) ==
  IF c.blocks # NoBlocks THEN Vec(c.blocks)
  ELSE IF c.h_prox = "None" THEN [j \in 0..(NFeatures(c.A) - 1) |-> j]
       ELSE [j \in 0..(NFeatures(c.A) - 1) |-> 0]

EffectiveBlocks(c) == IF c.solver = "SAGA" THEN SagaBlocks(c) ELSE PssagaBlocks(c)

\* the block-support index of the call
CallSupport(c) ==
  support_matrix(CsrIndices(c.A), CsrIndptr(c.A), EffectiveBlocks(c),
                 NBlocks(EffectiveBlocks(c)))

\* a setup that checks the step size only after the warm-up call
SetupOrderLateStep(solver) ==
  IF solver = "SAGA"
    THEN <<"copy", "dims", "prox", "factory", "init", "warmup", "step">>
    ELSE <<"prox", "copy", "dims", "factory", "init", "warmup", "step">>

\* The statements of a solver before its epoch loop, in program order:
\* "copy" the copies of x0, "dims" the shape assertions, "step" the step size
\* check, "prox" the checks of the proximal arguments, "factory" the default
\* block assignment and the factory call, "init" the memory terms and
\* init_gradient, "warmup" the warm-up kernel call and the first trace entries.
SetupOrder(solver) ==
  IF solver = "SAGA"
    THEN <<"copy", "dims", "step", "prox", "factory", "init", "warmup">>
    ELSE <<"prox", "copy", "dims", "step", "factory", "init", "warmup">>

\* fmin_SAGA: "assert x.size == A.shape[1]; assert A.shape[0] == b.size";
\* fmin_PSSAGA: "assert A.shape[0] == b.size" (its assertion on the size of
\* y is commented out)
DimsError(c) ==
  IF c.solver = "SAGA" /\ Len(c.x0) # NFeatures(c.A) THEN "DimensionMismatch"
  ELSE IF NSamples(c.A) # Len(c.b) THEN "DimensionMismatch"
  ELSE "none"

\* "if step_size < 0: raise ValueError"
StepError(c) == IF RLt(c.step_size, R(0)) THEN "InvalidStepSize" ELSE "none"

\* the "else: raise NotImplementedError" branches (fmin_SAGA has no h_prox)
ProxError(c) ==
  IF ~ProxSupported(c.g_prox) THEN "UnsupportedProximalOperator"
  ELSE IF c.solver = "PSSAGA" /\ ~ProxSupported(c.h_prox)
         THEN "UnsupportedProximalOperator"
  ELSE "none"

\* The exceptions of the factory call: the assertion on the block ids, and
\* in _factory_sparse_PSSAGA, whose BS_h is built without a shape, the
\* ValueError of csr_matrix on an empty BS_h and the IndexError of d_h[h],
\* d_h having max(BS_h_indices)+1 entries.
FactoryError(c) ==
  IF ~BlocksValid(EffectiveBlocks(c)) THEN "InvalidBlockAssignment"
  ELSE IF c.solver = "SAGA" THEN "none"
  ELSE IF Size(CallSupport(c).BS_indices) = 0 THEN "ValueError"
  ELSE IF NBlocks(EffectiveBlocks(c)) > InferredCols(CallSupport(c)) THEN "IndexError"
  ELSE "none"

\* a call that raises nothing before its epoch loop
ValidCall(c) ==
  /\ DimsError(c) = "none"
  /\ StepError(c) = "none"
  /\ ProxError(c) = "none"
  /\ FactoryError(c) = "none"

\* d of _epoch_factory_sparse_SAGA: BS has the shape (n_samples, n_blocks)
SagaBlockWeights(BS, n_samples, n_blocks) ==
  [h \in 0..(n_blocks - 1) |->
     IF BlockCount(BS, h) # 0 THEN Rat(n_samples, BlockCount(BS, h)) ELSE R(0)]

\* The closure of the factory of the call (_epoch_factory_sparse_SAGA or
\* _factory_sparse_PSSAGA), of a call that passes its setup checks.
Factory(c) ==
  LET blocks == EffectiveBlocks(c)
      n_blocks == NBlocks(blocks)
      BS == CallSupport(c)
      RB == ReverseIndptr(blocks, n_blocks, NFeatures(c.A))
      d == IF c.solver = "SAGA"
             THEN SagaBlockWeights(BS, NSamples(c.A), n_blocks)
             ELSE BlockWeights(BS, NSamples(c.A))
  IN  [A_data |-> CsrData(c.A), A_indices |-> CsrIndices(c.A),
       A_indptr |-> CsrIndptr(c.A),
       n_samples |-> NSamples(c.A), n_features |-> NFeatures(c.A),
       b |-> RVec(c.b), alpha |-> R(c.alpha), beta |-> R(c.beta),
       gamma |-> R(c.gamma), g_prox |-> c.g_prox, h_prox |-> c.h_prox,
       blocks |-> blocks, n_blocks |-> n_blocks,
       BS_indices |-> BS.BS_indices, BS_indptr |-> BS.BS_indptr,
       RB_indptr |-> RB, d_h |-> d,
       d_weights |-> IF c.solver = "SAGA" THEN Zeros(NFeatures(c.A))
                     ELSE FeatureWeights(d, RB, NFeatures(c.A), n_blocks)]

\* "certificate < tol", on the squared certificate
BelowTol(certificate, tol) == RLt(R(0), tol) /\ RLt(certificate, RMul(tol, tol))

----------------------------------------------------------------------------
(* The state of one call.                                                  *)

VARIABLES
  cfg,               \* the arguments of the call
  caller_x0,         \* the caller's x0 array, as the caller sees it
  pc,                \* "setup", "loop", "epoch", "return", "done", "error"
  stage,             \* position in SetupOrder while pc = "setup"
  err,               \* the exception raised, "none" if none
  fac,               \* the closure of the factory
  x, y, z,           \* the coefficient arrays (z of fmin_SAGA: the local of the loop)
  memory_gradient,
  gradient_average,
  it,                \* the loop variable; -1 while unbound
  certificate,       \* the squared certificate; -1 while unbound
  success,
  workers,           \* the epoch-kernel calls of the running iteration
  trace_x,
  kernel_calls,      \* history: epoch-kernel calls made so far, warm-up included
  epochs,            \* history: iterations of the epoch loop completed so far
  result,            \* the OptimizeResult returned
  twin,              \* SpecTwin: the paired run
  support            \* SpecSupport: the locals of a call of _support_matrix

vars ==
  <<cfg, caller_x0, pc, stage, err, fac, x, y, z, memory_gradient,
    gradient_average, it, certificate, success, workers, trace_x,
    kernel_calls, epochs, result, twin, support>>

Unbound == -1
NoFactory == [none |-> TRUE]
NoResult == [none |-> TRUE]
NoTwin == [none |-> TRUE]
NoSupport == [none |-> TRUE]
NoLoc == [i |-> -1, grad_i |-> R(0), mem_i |-> R(0)]

\* the arrays a kernel call is handed
Arrays ==
  [x |-> x, y |-> y, z |-> z, memory_gradient |-> memory_gradient,
   gradient_average |-> gradient_average]

\* Whether the solver works on a copy of the caller's x0:
\* "np.ascontiguousarray(x0).copy()", "x0.copy()".
CopiesX0(solver) == TRUE

\* the caller's x0 after the solver wrote new_x to its x
CallerView(new_x) == IF CopiesX0(cfg.solver) THEN caller_x0 ELSE new_x

\* the stage the setup is at
AtStage(name) ==
  /\ pc = "setup"
  /\ stage <= Len(SetupOrder(cfg.solver))
  /\ SetupOrder(cfg.solver)[stage] = name

\* the setup moves on, or raises e
Raise(e) == pc' = "error" /\ err' = e /\ stage' = stage
Advance ==
  /\ err' = err
  /\ stage' = stage + 1
  /\ pc' = IF stage = Len(SetupOrder(cfg.solver)) THEN "loop" ELSE "setup"

----------------------------------------------------------------------------
(* The setup of fmin_SAGA and fmin_PSSAGA.                                 *)

\* "x = np.ascontiguousarray(x0).copy()"; "y = x0.copy(); x = x0.copy();
\* z = x.copy()"
StageCopy ==
  /\ AtStage("copy")
  /\ x' = RVec(cfg.x0)
  /\ y' = IF cfg.solver = "PSSAGA" THEN RVec(cfg.x0) ELSE y
  /\ z' = IF cfg.solver = "PSSAGA" THEN RVec(cfg.x0) ELSE z
  /\ Advance
  /\ UNCHANGED <<cfg, support, caller_x0, fac, memory_gradient, gradient_average, it,
                 certificate, success, workers, trace_x, kernel_calls, epochs,
                 result, twin>>

StageDims ==
  /\ AtStage("dims")
  /\ IF DimsError(cfg) # "none" THEN Raise(DimsError(cfg)) ELSE Advance
  /\ UNCHANGED <<cfg, support, caller_x0, fac, x, y, z, memory_gradient, gradient_average,
                 it, certificate, success, workers, trace_x, kernel_calls,
                 epochs, result, twin>>

StageStep ==
  /\ AtStage("step")
  /\ IF StepError(cfg) # "none" THEN Raise(StepError(cfg)) ELSE Advance
  /\ UNCHANGED <<cfg, support, caller_x0, fac, x, y, z, memory_gradient, gradient_average,
                 it, certificate, success, workers, trace_x, kernel_calls,
                 epochs, result, twin>>

StageProx ==
  /\ AtStage("prox")
  /\ IF ProxError(cfg) # "none" THEN Raise(ProxError(cfg)) ELSE Advance
  /\ UNCHANGED <<cfg, support, caller_x0, fac, x, y, z, memory_gradient, gradient_average,
                 it, certificate, success, workers, trace_x, kernel_calls,
                 epochs, result, twin>>

StageFactory ==
  /\ AtStage("factory")
  /\ IF FactoryError(cfg) # "none"
       THEN Raise(FactoryError(cfg)) /\ fac' = fac
       ELSE Advance /\ fac' = Factory(cfg)
  /\ UNCHANGED <<cfg, support, caller_x0, x, y, z, memory_gradient, gradient_average,
                 it, certificate, success, workers, trace_x, kernel_calls,
                 epochs, result, twin>>

\* ".. memory terms ..": the zeroed arrays and init_gradient
StageInit ==
  /\ AtStage("init")
  /\ memory_gradient' = init_gradient(fac).memory_gradient
  /\ gradient_average' = init_gradient(fac).gradient_average
  /\ Advance
  /\ UNCHANGED <<cfg, support, caller_x0, fac, x, y, z, it, certificate, success, workers,
                 trace_x, kernel_calls, epochs, result, twin>>

\* The warm-up call, on sample_indices = [0]: fmin_SAGA hands the kernel
\* x.copy() with its own memory terms, fmin_PSSAGA hands it its own y, x, z
\* and memory terms.  Then "trace_x = [x.copy()]".
WarmUpArrays ==
  IF cfg.solver = "SAGA"
    THEN [SagaSample(fac, Arrays, 0, cfg.step_size) EXCEPT !.x = x]
    ELSE PssagaSample(fac, Arrays, 0, cfg.step_size)

StageWarmUp ==
  /\ AtStage("warmup")
  /\ x' = WarmUpArrays.x
  /\ y' = WarmUpArrays.y
  /\ z' = WarmUpArrays.z
  /\ memory_gradient' = WarmUpArrays.memory_gradient
  /\ gradient_average' = WarmUpArrays.gradient_average
  /\ caller_x0' = CallerView(x')
  /\ trace_x' = <<x'>>
  /\ kernel_calls' = kernel_calls + 1
  /\ Advance
  /\ UNCHANGED <<cfg, support, fac, it, certificate, success, workers, epochs, result, twin>>

----------------------------------------------------------------------------
(* The epoch loop.                                                         *)

\* The sample_indices an iteration draws: fmin_SAGA draws
\* np.random.randint(low=0, high=n_samples, size=n_samples), fmin_PSSAGA
\* np.random.permutation(n_samples).
SampleSequences(c) ==
  LET n == NSamples(c.A)
      all == [1..n -> 0..(n - 1)]
  IN  IF c.solver = "SAGA" THEN all
      ELSE {p \in all : \A i, j \in 1..n : p[i] = p[j] => i = j}

\* a loop that takes one value too many
LoopContinuesInclusive(i, max_iter) == i + 1 <= max_iter

\* "for it in range(max_iter)": whether the loop has a value after i
LoopContinues(i, max_iter) == i + 1 < max_iter

\* "for it in range(max_iter)" takes its next value and the iteration hands
\* its kernel calls out: n_jobs submitted to the executor (fmin_SAGA), or the
\* one call the driver makes itself (fmin_PSSAGA).
Dispatch ==
  /\ pc = "loop"
  /\ LoopContinues(it, cfg.max_iter)
  /\ it' = it + 1
  /\ \E perms \in [1..cfg.n_jobs -> SampleSequences(cfg)] :
       workers' = [w \in 1..cfg.n_jobs |->
                     [perm |-> perms[w], pos |-> 1, phase |-> "read", loc |-> NoLoc]]
  /\ kernel_calls' = kernel_calls + cfg.n_jobs
  /\ pc' = "epoch"
  /\ UNCHANGED <<cfg, support, caller_x0, stage, err, fac, x, y, z, memory_gradient,
                 gradient_average, certificate, success, trace_x, epochs,
                 result, twin>>

\* range(max_iter) is exhausted
LoopExit ==
  /\ pc = "loop"
  /\ ~LoopContinues(it, cfg.max_iter)
  /\ pc' = "return"
  /\ UNCHANGED <<cfg, support, caller_x0, stage, err, fac, x, y, z, memory_gradient,
                 gradient_average, it, certificate, success, workers, trace_x,
                 kernel_calls, epochs, result, twin>>

\* a kernel call with samples left, at the given part of its sample step
Running(w, phase) ==
  /\ w \in DOMAIN workers
  /\ workers[w].phase = phase
  /\ workers[w].pos <= Len(workers[w].perm)

\* the worker after it finished a sample step
NextSample(wk) ==
  [wk EXCEPT !.pos = @ + 1,
             !.phase = IF wk.pos + 1 > Len(wk.perm) THEN "done" ELSE "read",
             !.loc = NoLoc]

\* SAGA kernel: the prediction from x, grad_i and mem_i
WorkerRead(w) ==
  /\ cfg.solver = "SAGA"
  /\ Running(w, "read")
  /\ workers' = [workers EXCEPT
                   ![w].loc = SagaRead(fac, Arrays, workers[w].perm[workers[w].pos]),
                   ![w].phase = "coef"]
  /\ UNCHANGED <<cfg, support, caller_x0, pc, stage, err, fac, x, y, z, memory_gradient,
                 gradient_average, it, certificate, success, trace_x,
                 kernel_calls, epochs, result, twin>>

\* SAGA kernel: ".. update coefficients .." and g_prox
WorkerCoef(w) ==
  /\ Running(w, "coef")
  /\ x' = SagaCoef(fac, Arrays, workers[w].loc, cfg.step_size).x
  /\ caller_x0' = CallerView(x')
  /\ workers' = [workers EXCEPT ![w].phase = "avg"]
  /\ UNCHANGED <<cfg, support, pc, stage, err, fac, y, z, memory_gradient,
                 gradient_average, it, certificate, success, trace_x,
                 kernel_calls, epochs, result, twin>>

\* SAGA kernel: ".. update memory terms ..", the gradient average
WorkerAvg(w) ==
  /\ Running(w, "avg")
  /\ gradient_average' = SagaAvg(fac, Arrays, workers[w].loc).gradient_average
  /\ workers' = [workers EXCEPT ![w].phase = "mem"]
  /\ UNCHANGED <<cfg, support, caller_x0, pc, stage, err, fac, x, y, z, memory_gradient,
                 it, certificate, success, trace_x, kernel_calls, epochs,
                 result, twin>>

\* SAGA kernel: "memory_gradient[i] += (grad_i - mem_i)", end of the sample step
WorkerMem(w) ==
  /\ Running(w, "mem")
  /\ memory_gradient' = SagaMem(Arrays, workers[w].loc).memory_gradient
  /\ workers' = [workers EXCEPT ![w] = NextSample(@)]
  /\ UNCHANGED <<cfg, support, caller_x0, pc, stage, err, fac, x, y, z, gradient_average,
                 it, certificate, success, trace_x, kernel_calls, epochs,
                 result, twin>>

\* PSSAGA kernel: one sample step, in the driver's thread
PssagaStep(w) ==
  /\ cfg.solver = "PSSAGA"
  /\ Running(w, "read")
  /\ LET s == PssagaSample(fac, Arrays, workers[w].perm[workers[w].pos], cfg.step_size)
     IN  /\ x' = s.x
         /\ y' = s.y
         /\ z' = s.z
         /\ memory_gradient' = s.memory_gradient
         /\ gradient_average' = s.gradient_average
  /\ caller_x0' = CallerView(x')
  /\ workers' = [workers EXCEPT ![w] = NextSample(@)]
  /\ UNCHANGED <<cfg, support, pc, stage, err, fac, it, certificate, success, trace_x,
                 kernel_calls, epochs, result, twin>>

\* a wait that returns when the first kernel call is over
JoinedFirstCompleted(ws) == \E w \in DOMAIN ws : ws[w].phase = "done"

\* "concurrent.futures.wait(futures)" and the exit of the executor's with
\* block return (fmin_SAGA); the kernel call returns (fmin_PSSAGA)
Joined(ws) == \A w \in DOMAIN ws : ws[w].phase = "done"

\* z and the squared certificate the iteration computes
EpochCertificate ==
  IF cfg.solver = "SAGA" THEN SagaCertificate(fac, Arrays, cfg.step_size)
  ELSE [z |-> z, certificate |-> PssagaCertificate(Arrays)]

\* The rest of an iteration once its kernel calls are over: the certificate,
\* the trace, and "if certificate < tol: success = True; break".
EpochEnd ==
  /\ pc = "epoch"
  /\ Joined(workers)
  /\ z' = EpochCertificate.z
  /\ certificate' = EpochCertificate.certificate
  /\ trace_x' = IF cfg.trace THEN Append(trace_x, x) ELSE trace_x
  /\ epochs' = epochs + 1
  /\ IF BelowTol(certificate', cfg.tol)
       THEN success' = TRUE /\ pc' = "return"
       ELSE success' = success /\ pc' = "loop"
  /\ UNCHANGED <<cfg, support, caller_x0, stage, err, fac, x, y, memory_gradient,
                 gradient_average, it, workers, kernel_calls, result, twin>>

\* "return optimize.OptimizeResult(x=x, success=success, nit=it, ...,
\* certificate=certificate, ...)": a NameError when the loop never bound it
Return ==
  /\ pc = "return"
  /\ IF it = Unbound
       THEN pc' = "error" /\ err' = "UnboundLocalError" /\ result' = result
       ELSE /\ pc' = "done"
            /\ err' = err
            /\ result' = [x |-> x, success |-> success, nit |-> it,
                          certificate |-> certificate]
  /\ UNCHANGED <<cfg, support, caller_x0, stage, fac, x, y, z, memory_gradient,
                 gradient_average, it, certificate, success, workers, trace_x,
                 kernel_calls, epochs, twin>>

----------------------------------------------------------------------------
(* The calls the model makes.                                              *)

Matrices ==
  { << <<1, 0>>, <<1, 1>> >>,
    << <<1, 0>>, <<0, 1>> >>,
    << <<2, 0>>, <<1, 0>> >>,
    << <<1, 1>> >> }

Half == <<1, 2>>

\* runs of the epoch loop: data, regularisation, max_iter and tol vary
LoopCalls ==
  [solver : {"SAGA", "PSSAGA"}, A : Matrices, b : {<<0, 0>>, <<1, 2>>, <<1>>},
   x0 : {<<0, 0>>, <<1, -1>>}, alpha : {0, 1}, beta : {0}, gamma : {0},
   g_prox : {"None"}, h_prox : {"None"}, step_size : {Half},
   blocks : {NoBlocks}, n_jobs : {1}, max_iter : 0..MaxIter,
   tol : {R(0), R(1)}, trace : {TRUE}]

\* the arguments the setup looks at: shapes, step size, proximal arguments,
\* block assignment
SetupCalls ==
  [solver : {"SAGA", "PSSAGA"}, A : {<< <<1, 0>>, <<1, 1>> >>},
   b : {<<1, 2>>, <<1>>}, x0 : {<<1, -1>>, <<1>>, <<1, -1, 1>>},
   alpha : {1}, beta : {1}, gamma : {1},
   g_prox : ProxKinds, h_prox : ProxKinds, step_size : {R(-1), R(0), Half},
   blocks : {NoBlocks, <<0, 0>>, <<0, 1>>, <<1, 0>>, <<0, 2>>, <<1, 1>>},
   n_jobs : {1}, max_iter : {1}, tol : {Half}, trace : {FALSE}]

\* fmin_SAGA with two jobs
ParallelCalls ==
  [solver : {"SAGA"}, A : Matrices, b : {<<1, 2>>, <<1>>},
   x0 : {<<0, 0>>}, alpha : {1}, beta : {0}, gamma : {0},
   g_prox : {"None"}, h_prox : {"None"}, step_size : {Half},
   blocks : {NoBlocks}, n_jobs : {2}, max_iter : {1}, tol : {R(1)},
   trace : {FALSE}]

\* fmin_SAGA with two jobs over several iterations, on one sample
ParallelLoopCalls ==
  [solver : {"SAGA"}, A : {<< <<1, 1>> >>}, b : {<<1>>},
   x0 : {<<0, 0>>, <<1, -1>>}, alpha : {1}, beta : {0}, gamma : {0},
   g_prox : {"None"}, h_prox : {"None"}, step_size : {Half},
   blocks : {NoBlocks}, n_jobs : {2}, max_iter : 1..MaxIter, tol : {R(0), R(1)},
   trace : {FALSE}]

\* fmin_SAGA has no h_prox argument, and fmin_PSSAGA no n_jobs; an x0
\* shorter than n_features makes the PSSAGA kernel read past the end of its
\* arrays, and is left out
Callable(c) ==
  /\ c.solver = "SAGA" => c.h_prox = "None"
  /\ c.solver = "PSSAGA" => c.n_jobs = 1 /\ Len(c.x0) >= NFeatures(c.A)

Inputs ==
  {c \in LoopCalls \cup SetupCalls \cup ParallelCalls \cup ParallelLoopCalls :
     Callable(c)}

Init ==
  /\ cfg \in Inputs
  /\ caller_x0 = RVec(cfg.x0)
  /\ pc = "setup"
  /\ stage = 1
  /\ err = "none"
  /\ fac = NoFactory
  /\ x = <<>>
  /\ y = <<>>
  /\ z = <<>>
  /\ memory_gradient = <<>>
  /\ gradient_average = <<>>
  /\ it = Unbound
  /\ certificate = R(Unbound)
  /\ success = FALSE
  /\ workers = <<>>
  /\ trace_x = <<>>
  /\ kernel_calls = 0
  /\ epochs = 0
  /\ result = NoResult
  /\ twin = NoTwin
  /\ support = NoSupport

Next ==
  \/ StageCopy
  \/ StageDims
  \/ StageStep
  \/ StageProx
  \/ StageFactory
  \/ StageInit
  \/ StageWarmUp
  \/ Dispatch
  \/ LoopExit
  \/ \E w \in 1..2 : WorkerRead(w)
  \/ \E w \in 1..2 : WorkerCoef(w)
  \/ \E w \in 1..2 : WorkerAvg(w)
  \/ \E w \in 1..2 : WorkerMem(w)
  \/ \E w \in 1..2 : PssagaStep(w)
  \/ EpochEnd
  \/ Return

Spec == Init /\ [][Next]_vars

----------------------------------------------------------------------------
(* Paired runs: a call with a proximal argument omitted, and the same call *)
(* with the identity operator passed for that term.  Both take the same    *)
(* sample steps, starting from the state init_gradient leaves.             *)

\* the call c with the identity operator passed for the omitted term
Explicit(c, term) ==
  IF term = "g" THEN [c EXCEPT !.g_prox = "Identity"]
  ELSE [c EXCEPT !.h_prox = "Identity"]

\* the terms of c whose proximal argument is omitted
OmittedTerms(c) ==
  {t \in {"g", "h"} : \/ t = "g" /\ c.g_prox = "None"
                      \/ t = "h" /\ c.solver = "PSSAGA" /\ c.h_prox = "None"}

TwinCalls ==
  [solver : {"SAGA", "PSSAGA"},
   A : {<< <<1, 0>>, <<1, 1>> >>, << <<1, 0>>, <<0, 1>> >>},
   b : {<<1, 2>>}, x0 : {<<0, 0>>, <<1, -1>>}, alpha : {0, 1}, beta : {1},
   gamma : {1}, g_prox : {"None", "Identity", "L1"},
   h_prox : {"None", "Identity", "L1"}, step_size : {Half},
   blocks : {NoBlocks, <<0, 0>>, <<0, 1>>}, n_jobs : {1}, max_iter : {1},
   tol : {R(0)}, trace : {FALSE}]

\* the arrays of a call when its first kernel call starts
StartArrays(c) ==
  [x |-> RVec(c.x0),
   y |-> IF c.solver = "PSSAGA" THEN RVec(c.x0) ELSE <<>>,
   z |-> IF c.solver = "PSSAGA" THEN RVec(c.x0) ELSE <<>>,
   memory_gradient |-> init_gradient(Factory(c)).memory_gradient,
   gradient_average |-> init_gradient(Factory(c)).gradient_average]

\* one sample step of the kernel of the solver
KernelSample(solver, f, s, i, step) ==
  IF solver = "SAGA" THEN SagaSample(f, s, i, step) ELSE PssagaSample(f, s, i, step)

TwinInit ==
  /\ cfg \in {c \in TwinCalls : Callable(c) /\ ValidCall(c) /\ OmittedTerms(c) # {}}
  /\ \E t \in OmittedTerms(cfg) :
       /\ ValidCall(Explicit(cfg, t))
       /\ twin = [term |-> t, fac |-> Factory(Explicit(cfg, t)),
                  s |-> StartArrays(Explicit(cfg, t)), steps |-> 0]
  /\ caller_x0 = RVec(cfg.x0)
  /\ pc = "twin"
  /\ stage = 1
  /\ err = "none"
  /\ fac = Factory(cfg)
  /\ x = StartArrays(cfg).x
  /\ y = StartArrays(cfg).y
  /\ z = StartArrays(cfg).z
  /\ memory_gradient = StartArrays(cfg).memory_gradient
  /\ gradient_average = StartArrays(cfg).gradient_average
  /\ it = Unbound
  /\ certificate = R(Unbound)
  /\ success = FALSE
  /\ workers = <<>>
  /\ trace_x = <<>>
  /\ kernel_calls = 0
  /\ epochs = 0
  /\ result = NoResult
  /\ support = NoSupport

\* both runs take the sample step of sample i
TwinStep ==
  /\ pc = "twin"
  /\ twin.steps < MaxTwinSteps
  /\ \E i \in 0..(NSamples(cfg.A) - 1) :
       LET s == KernelSample(cfg.solver, fac, Arrays, i, cfg.step_size)
           t == KernelSample(cfg.solver, twin.fac, twin.s, i, cfg.step_size)
       IN  /\ x' = s.x
           /\ y' = s.y
           /\ z' = s.z
           /\ memory_gradient' = s.memory_gradient
           /\ gradient_average' = s.gradient_average
           /\ twin' = [twin EXCEPT !.s = t, !.steps = @ + 1]
  /\ UNCHANGED <<cfg, support, caller_x0, pc, stage, err, fac, it, certificate, success,
                 workers, trace_x, kernel_calls, epochs, result>>

SpecTwin == TwinInit /\ [][TwinStep]_vars

----------------------------------------------------------------------------
(* A call of _support_matrix on its own, one iteration of its row loop at  *)
(* a time.  cfg holds the arguments: A_indices, A_indptr, g_blocks and     *)
(* n_blocks; support holds the locals: the row i the loop is at, and       *)
(* BS_indices, BS_indptr, seen_blocks, counter_indptr.                     *)

\* the row-pointer arrays of r rows over nnz stored entries
Indptrs(r, nnz) ==
  {ip \in [1..(r + 1) -> 0..nnz] :
     /\ ip[1] = 0
     /\ ip[r + 1] = nnz
     /\ \A k \in 1..r : ip[k] <= ip[k + 1]}

\* the block assignments of nf features both factories let through:
\* "assert np.all(unique_blocks == np.arange(n_blocks))"
BlockAssignments(nf) == {g \in [1..nf -> 0..(nf - 1)] : BlocksValid(Vec(g))}

\* The arguments of the calls: the column indices of a row in any order,
\* repeated or not, rows that may be empty, and n_blocks as the factories
\* compute it.
SupportCall(ix, ip, g) ==
  [A_indices |-> Vec(ix), A_indptr |-> Vec(ip), g_blocks |-> Vec(g),
   n_blocks |-> NBlocks(Vec(g))]

SupportStart ==
  /\ \E nf \in 1..MaxFeatures, nnz \in 0..MaxNnz, r \in 1..MaxRows :
       \E ix \in [1..nnz -> 0..(nf - 1)], ip \in Indptrs(r, nnz),
          g \in BlockAssignments(nf) :
         cfg = SupportCall(ix, ip, g)
  /\ support = [i |-> 0,
                s |-> SupportInit(cfg.A_indices, cfg.A_indptr, cfg.n_blocks)]
  /\ pc = "support"
  /\ result = NoResult
  /\ caller_x0 = <<>>
  /\ stage = 1
  /\ err = "none"
  /\ fac = NoFactory
  /\ x = <<>>
  /\ y = <<>>
  /\ z = <<>>
  /\ memory_gradient = <<>>
  /\ gradient_average = <<>>
  /\ it = Unbound
  /\ certificate = R(Unbound)
  /\ success = FALSE
  /\ workers = <<>>
  /\ trace_x = <<>>
  /\ kernel_calls = 0
  /\ epochs = 0
  /\ twin = NoTwin

\* "for i in range(A_indptr.size - 1)": the iteration of row support.i
SupportRowStep ==
  /\ pc = "support"
  /\ support.i < Size(cfg.A_indptr) - 1
  /\ support' = [i |-> support.i + 1,
                 s |-> SupportRow(support.s, cfg.A_indices, cfg.A_indptr,
                                  cfg.g_blocks, support.i)]
  /\ UNCHANGED <<cfg, caller_x0, pc, stage, err, fac, x, y, z, memory_gradient,
                 gradient_average, it, certificate, success, workers, trace_x,
                 kernel_calls, epochs, result, twin>>

\* the row loop is over: the return statement
SupportReturn ==
  /\ pc = "support"
  /\ support.i = Size(cfg.A_indptr) - 1
  /\ result' = SupportReturned(support.s)
  /\ pc' = "returned"
  /\ UNCHANGED <<cfg, support, caller_x0, stage, err, fac, x, y, z,
                 memory_gradient, gradient_average, it, certificate, success,
                 workers, trace_x, kernel_calls, epochs, twin>>

SupportNext == SupportRowStep \/ SupportReturn

SpecSupport == SupportStart /\ [][SupportNext]_vars

----------------------------------------------------------------------------
(* Properties.                                                             *)

\* every kernel call of the running iteration is over
AllDone == \A w \in DOMAIN workers : workers[w].phase = "done"

\* no kernel call is inside a sample step
AtSampleBoundary == \A w \in DOMAIN workers : workers[w].phase \in {"read", "done"}

\* the last certificate is below tol (certificate holds its square)
CertificateBelowTol ==
  /\ cfg.tol[1] > 0
  /\ certificate[1] * cfg.tol[2] * cfg.tol[2] < cfg.tol[1] * cfg.tol[1] * certificate[2]

\* (1/n_samples) * sum_i memory_gradient[i] * A[i,j], from the dense A
AverageOfMemory(j) ==
  RDivInt(SumTo([i \in 0..(NSamples(cfg.A) - 1) |->
                   RMul(memory_gradient[i], R(cfg.A[i + 1][j + 1]))],
                NSamples(cfg.A)),
          NSamples(cfg.A))

\* the gradient average is the average of the memory table, for every feature
AverageMatchesMemory ==
  \A j \in 0..(NFeatures(cfg.A) - 1) : gradient_average[j] = AverageOfMemory(j)

\* C1: with max_iter >= 1 the driver goes on exactly while the certificate of
\* the epoch just run is not below tol; it returns with success=True at the
\* first epoch whose certificate is below tol, and otherwise after exactly
\* max_iter epochs with success=False; once it returns no kernel call is
\* running and none was made beyond those of the epochs run; the only errors
\* are those of the setup.
C1_DriverTermination ==
  cfg.max_iter >= 1 =>
    /\ (pc = "loop" /\ epochs >= 1) => ~CertificateBelowTol /\ ~success
    /\ pc \in {"return", "done"} =>
         /\ AllDone
         /\ 1 <= epochs /\ epochs <= cfg.max_iter
         /\ success <=> CertificateBelowTol
         /\ ~success => epochs = cfg.max_iter
         /\ kernel_calls = 1 + cfg.n_jobs * epochs
    /\ pc = "done" => result.success = success /\ result.x = x
    /\ pc = "error" => epochs = 0 /\ err # "UnboundLocalError"

\* C1 witness: a run that was not below tol after its first epoch and
\* converged on its second
C1_ConvergedOnSecondEpoch ==
  pc = "done" /\ result.success /\ epochs = 2 /\ cfg.max_iter >= 2

\* C2: in fmin_SAGA, the certificate of an iteration is computed, and the
\* next iteration dispatched, only when every kernel call dispatched so far
\* is over.
C2_JoinBeforeCertificate ==
  [][cfg.solver = "SAGA" =>
       /\ (epochs' # epochs \/ certificate' # certificate) => AllDone
       /\ it' # it => AllDone]_vars

\* C2 witness: two iterations with two jobs each have been joined
C2_TwoJobsJoinedTwice ==
  cfg.solver = "SAGA" /\ cfg.n_jobs = 2 /\ epochs = 2 /\ AllDone

\* C3: a step size <= 0, zero included, is rejected before any kernel call
\* (the warm-up call included).
C3_NonPositiveStepRejected ==
  cfg.step_size[1] <= 0 => kernel_calls = 0 /\ pc \in {"setup", "error"}

\* C4: a call whose x0 has not n_features entries, or whose b has not
\* n_samples entries, fails at setup, before the memory terms are
\* initialised and before any kernel call.
C4_DimensionMismatchRejected ==
  (Len(cfg.x0) # NFeatures(cfg.A) \/ Len(cfg.b) # NSamples(cfg.A)) =>
    /\ pc \in {"setup", "error"}
    /\ memory_gradient = <<>>
    /\ kernel_calls = 0

\* C5: when a solver raises one of its setup errors, no kernel call has been
\* made (the warm-up included), the memory terms have not been initialised
\* and the caller's x0 is as the caller passed it (A and b are never written).
C5_SetupErrorsBeforeKernel ==
  (pc = "error" /\ err \in {"InvalidStepSize", "InvalidBlockAssignment",
                            "UnsupportedProximalOperator", "DimensionMismatch"}) =>
    /\ kernel_calls = 0
    /\ epochs = 0
    /\ memory_gradient = <<>>
    /\ caller_x0 = RVec(cfg.x0)

\* C5 witness: the last of the setup checks, the one of the factory, raised
C5_BlockAssignmentRejected ==
  pc = "error" /\ err = "InvalidBlockAssignment"

\* C6: for every max_iter >= 0 the solver returns a record whose nit is the
\* number of epochs executed, with the final coefficients, the success flag
\* and the last certificate.
C6_NitCountsEpochs ==
  /\ err # "UnboundLocalError"
  /\ pc = "done" =>
       /\ result.nit = epochs
       /\ result.x = x
       /\ result.success = success
       /\ result.certificate = certificate

\* C7: when the caller passes no block assignment, the solver uses
\* block[j] = j for every feature j, whether or not a proximal callable was
\* passed.
C7_DefaultBlocksPerFeature ==
  (cfg.blocks = NoBlocks /\ pc \in {"loop", "epoch", "return", "done"}) =>
    \A j \in DOMAIN fac.blocks : fac.blocks[j] = j

\* C8: the run with a proximal argument omitted and the run with the
\* identity operator passed for that term have the same x (and y, z) after
\* every sample step, the other arguments, an omitted block assignment
\* included, being equal.
C8_OmittedProxIsIdentity ==
  pc = "twin" => twin.s.x = x /\ twin.s.y = y /\ twin.s.z = z

\* C9: in a single-threaded run, gradient_average[j] is the average over the
\* samples of memory_gradient[i] * A[i,j], for every feature j, after
\* init_gradient and after every sample step (the warm-up step included).
C9_AverageMatchesMemory ==
  (cfg.n_jobs = 1 /\ memory_gradient # <<>> /\ AtSampleBoundary) =>
    AverageMatchesMemory

\* C9 witness: an epoch that took the same sample twice is over, and the
\* memory of that sample is no longer what init_gradient stored
C9_RepeatedSampleStepped ==
  /\ cfg.n_jobs = 1
  /\ pc = "epoch"
  /\ AllDone
  /\ Len(workers[1].perm) = 2
  /\ workers[1].perm[1] = workers[1].perm[2]
  /\ memory_gradient[workers[1].perm[1]] # R(-(cfg.b[workers[1].perm[1] + 1]))

\* C10: in fmin_SAGA with n_jobs > 1, when a kernel call finishes a sample
\* step, memory_gradient[i] is the derivative that call computed, and the
\* gradient average matches the memory table whenever no call is inside a
\* sample step.
C10_SampleStepsNotInterleaved ==
  [][\A w \in DOMAIN workers :
       (cfg.n_jobs > 1 /\ workers[w].phase = "mem" /\ workers'[w].phase # "mem") =>
         /\ memory_gradient'[workers[w].loc.i] = workers[w].loc.grad_i
         /\ AtSampleBoundary' => AverageMatchesMemory']_vars

\* the blocks of the block-support index of row i
TouchedBlocks(i) ==
  {fac.BS_indices[k] : k \in fac.BS_indptr[i]..(fac.BS_indptr[i + 1] - 1)}

\* the features the block assignment puts in block h
FeaturesOf(h) == {j \in 0..(fac.n_features - 1) : fac.blocks[j] = h}

\* C11: in a sample step of the PSSAGA kernel on sample i, for every block h
\* touched by row i the indices the block passes visit are exactly the
\* features j with h_blocks[j] = h, so that x, y and z change on no feature
\* of a block row i does not touch; for every valid block assignment, those
\* whose blocks are not contiguous in feature order included (in calls with
\* a positive step size and an x0 of n_features entries).
C11_BlockPassesVisitBlockFeatures ==
  [][(cfg.solver = "PSSAGA" /\ pc = "epoch" /\ workers # <<>> /\ workers' # <<>>
        /\ workers'[1].pos = workers[1].pos + 1
        /\ cfg.step_size[1] > 0 /\ Len(cfg.x0) = NFeatures(cfg.A)) =>
       LET i == workers[1].perm[workers[1].pos]
       IN  /\ \A h \in TouchedBlocks(i) : BlockRange(fac, h) = FeaturesOf(h)
           /\ \A j \in 0..(fac.n_features - 1) :
                 fac.blocks[j] \notin TouchedBlocks(i) =>
                   x'[j] = x[j] /\ y'[j] = y[j] /\ z'[j] = z[j]]_vars

\* p has length n and holds every index of [0, n) exactly once
IsPermutation(p, n) ==
  /\ Len(p) = n
  /\ \A i \in 0..(n - 1) : Cardinality({k \in 1..Len(p) : p[k] = i}) = 1

\* C12: in every iteration of fmin_SAGA, the sample_indices handed to each
\* kernel call are a permutation of [0, n_samples).
C12_SagaSamplesArePermutations ==
  cfg.solver = "SAGA" =>
    \A w \in DOMAIN workers : IsPermutation(workers[w].perm, NSamples(cfg.A))

\* the block ids stored for row i in the index (ix, ip)
StoredBlocks(ix, ip, i) == {ix[k] : k \in ip[i]..(ip[i + 1] - 1)}

\* the blocks of the nonzero columns of row i of the call
RowBlocks(i) ==
  {cfg.g_blocks[cfg.A_indices[c]] : c \in cfg.A_indptr[i]..(cfg.A_indptr[i + 1] - 1)}

\* the slice of row i in (ix, ip) is well formed, holds exactly the blocks of
\* the row's nonzero columns, and holds none of them twice
RowSupportExact(ix, ip, i) ==
  /\ 0 <= ip[i] /\ ip[i] <= ip[i + 1] /\ ip[i + 1] <= Size(ix)
  /\ StoredBlocks(ix, ip, i) = RowBlocks(i)
  /\ \A k1, k2 \in ip[i]..(ip[i + 1] - 1) : ix[k1] = ix[k2] => k1 = k2

\* C13: for every CSR index structure and every block assignment with ids
\* exactly {0..n_blocks-1}, after each iteration of the row loop of
\* _support_matrix seen_blocks is all zero again and the rows processed so
\* far hold exactly the blocks of their nonzero columns, each once; the
\* arrays returned hold the same for every row.
C13_SupportRowsExact ==
  /\ pc = "support" =>
       /\ \A h \in DOMAIN support.s.seen_blocks : support.s.seen_blocks[h] = 0
       /\ \A i \in 0..(support.i - 1) :
             RowSupportExact(support.s.BS_indices, support.s.BS_indptr, i)
  /\ pc = "returned" =>
       /\ Size(result.BS_indptr) = Size(cfg.A_indptr)
       /\ \A i \in 0..(Size(cfg.A_indptr) - 2) :
             RowSupportExact(result.BS_indices, result.BS_indptr, i)

\* C13 witness: the call has returned; its second row has two stored entries
\* of different features that share a block, a block its first row holds
\* too, and the index lists that block once for the second row
C13_SharedBlockListedOnce ==
  /\ pc = "returned"
  /\ Size(cfg.A_indptr) = 3
  /\ cfg.A_indptr[2] - cfg.A_indptr[1] = 2
  /\ cfg.A_indices[cfg.A_indptr[1]] # cfg.A_indices[cfg.A_indptr[1] + 1]
  /\ Cardinality(RowBlocks(1)) = 1
  /\ RowBlocks(1) \subseteq RowBlocks(0)
  /\ result.BS_indptr[2] - result.BS_indptr[1] = 1

\* C14: when the warm-up kernel call has returned and the first epoch has
\* not started, x (and y and z in fmin_PSSAGA), the memory table and the
\* gradient average are what they were right after init_gradient, and the
\* first trace point is x0 (in calls with max_iter >= 1, a positive step size
\* and an x0 of n_features entries).
C14_WarmUpIsThrowaway ==
  (pc = "loop" /\ epochs = 0 /\ it = Unbound /\ cfg.max_iter >= 1
     /\ cfg.step_size[1] > 0 /\ Len(cfg.x0) = NFeatures(cfg.A)) =>
    /\ x = RVec(cfg.x0)
    /\ cfg.solver = "PSSAGA" => y = RVec(cfg.x0) /\ z = RVec(cfg.x0)
    /\ memory_gradient = init_gradient(fac).memory_gradient
    /\ gradient_average = init_gradient(fac).gradient_average
    /\ trace_x[1] = RVec(cfg.x0)

\* the first stored position of row i whose column is in block h
FirstAt(i, h) ==
  CHOOSE c \in cfg.A_indptr[i]..(cfg.A_indptr[i + 1] - 1) :
    /\ cfg.g_blocks[cfg.A_indices[c]] = h
    /\ \A d \in cfg.A_indptr[i]..(c - 1) : cfg.g_blocks[cfg.A_indices[d]] # h

\* the block ids of the columns of row i, in stored order, never decrease
RowNondecreasing(i) ==
  \A c1, c2 \in cfg.A_indptr[i]..(cfg.A_indptr[i + 1] - 1) :
    c1 < c2 => cfg.g_blocks[cfg.A_indices[c1]] <= cfg.g_blocks[cfg.A_indices[c2]]

\* C15 as stated: for every row i, the block ids _support_matrix returns for
\* row i are in strictly ascending order, for every valid block assignment
\* and every ordering of the row's column indices.
C15_RowBlocksAscending ==
  pc = "returned" =>
    \A i \in 0..(Size(cfg.A_indptr) - 2) :
      \A k1, k2 \in result.BS_indptr[i]..(result.BS_indptr[i + 1] - 1) :
        k1 < k2 => result.BS_indices[k1] < result.BS_indices[k2]

\* C15 as amended: for every row i, the block ids _support_matrix returns for
\* row i are pairwise distinct and in the order in which the row's stored
\* column indices first meet them; they are strictly ascending when the
\* block ids of the row's columns, in stored order, never decrease.
C15_RowBlocksFirstSeenOrder ==
  pc = "returned" =>
    \A i \in 0..(Size(cfg.A_indptr) - 2) :
      \A k1, k2 \in result.BS_indptr[i]..(result.BS_indptr[i + 1] - 1) :
        k1 < k2 =>
          /\ result.BS_indices[k1] \in RowBlocks(i)
          /\ result.BS_indices[k2] \in RowBlocks(i)
          /\ result.BS_indices[k1] # result.BS_indices[k2]
          /\ FirstAt(i, result.BS_indices[k1]) < FirstAt(i, result.BS_indices[k2])
          /\ RowNondecreasing(i) => result.BS_indices[k1] < result.BS_indices[k2]

\* C15 witness: the call has returned; a row of three stored columns met a
\* higher block first, then a lower one, then the higher one again, and the
\* index lists the two blocks in that order
C15_HigherBlockSeenFirst ==
  /\ pc = "returned"
  /\ \E i \in 0..(Size(cfg.A_indptr) - 2) :
       LET lo == cfg.A_indptr[i]
           b0 == result.BS_indptr[i]
       IN  /\ cfg.A_indptr[i + 1] - lo = 3
           /\ cfg.g_blocks[cfg.A_indices[lo]] > cfg.g_blocks[cfg.A_indices[lo + 1]]
           /\ cfg.g_blocks[cfg.A_indices[lo + 2]] = cfg.g_blocks[cfg.A_indices[lo]]
           /\ result.BS_indptr[i + 1] - b0 = 2
           /\ result.BS_indices[b0] = cfg.g_blocks[cfg.A_indices[lo]]
           /\ result.BS_indices[b0 + 1] = cfg.g_blocks[cfg.A_indices[lo + 1]]

====
